---- MODULE Spec2Model ----
(***************************************************************************)
(* AuraLock (run_auralock.py): the presence decision engine.               *)
(*                                                                         *)
(* A BLE scanner invokes detection_callback once per advertisement.  For   *)
(* the target device the callback converts the RSSI to a distance and      *)
(* decides, from two distance thresholds and an away timer, whether to     *)
(* call lock_screen or unlock_screen.  The callback has no await in it, so *)
(* one invocation is one atomic step.                                      *)
(*                                                                         *)
(* Time is the value of time.time(), counted in whole seconds.  A distance *)
(* is a record [inf, cm]: inf is float('inf'), cm is the distance in       *)
(* centimetres rounded up to an integer, which decides every comparison    *)
(* with an integer threshold exactly as the unrounded value does.          *)
(* The commands run by lock_screen and unlock_screen are taken to be       *)
(* installed, so subprocess.run returns.                                   *)
(*                                                                         *)
(* Before tracking, the process loads config.json and run() probes for    *)
(* the target for at most 15 seconds; Ctrl-C ends the process.            *)
(***************************************************************************)
EXTENDS Integers, Sequences, FiniteSets, TLC

VARIABLES
    screen_locked,                 \* global screen_locked
    distance_exceed_start_time,    \* global distance_exceed_start_time
    clock,                         \* what time.time() returns now
    last,                          \* history: the most recent advertisement and what it did
    runStart,                      \* history: time of the first sample of the current
                                   \*          unbroken run of away samples of the target
    lastTime,                      \* history: time of the last processed target sample
    lastLock,                      \* history: the lock intents: when the last one was
                                   \*          emitted, how many there were, whether the
                                   \*          timer was started again since the last one,
                                   \*          whether all samples since were away samples
    sameRun,                       \* history: the current run of equal-distance samples
    lastIntent,                    \* history: the most recent intent emitted, or "none"
    stepBacks,                     \* history: how often the clock was set back
    proc                           \* the process: where run() is, the scanner, the probe
                                   \* loop's elapsed time and device_found, and what was
                                   \* notified and logged

vars == <<screen_locked, distance_exceed_start_time, clock, last, runStart,
          lastTime, lastLock, sameRun, lastIntent, stepBacks, proc>>

(* all but proc *)
engine == <<screen_locked, distance_exceed_start_time, clock, last, runStart,
            lastTime, lastLock, sameRun, lastIntent, stepBacks>>

----------------------------------------------------------------------------
(* config.json *)

TARGET_MAC_ADDRESS == "AA:AA"
OTHER_MAC_ADDRESS == "BB:BB"
RSSI_AT_1M == -60
PATH_LOSS_EXPONENT == 2
DISTANCE_THRESHOLD_CM == 1000
NEARBY_DISTANCE_CM == 100
TIME_THRESHOLD_SECONDS == 2

(* the probe loop of run() gives up after this many seconds *)
PROBE_WINDOW_SECONDS == 15

(* Python's None, for distance_exceed_start_time and the time-valued history *)
None == -1

(* bounds of the model *)
MaxTime == 8
MaxChanges == 2
MaxLocks == 2
MaxStepBacks == 1
MaxStepBackSeconds == 1
AwayFrom == 3

(* RSSI readings delivered by the scanner: 0 is the "no signal" reading; the *)
(* others give 32 cm, 100 cm, 317 cm, 1000 cm and 3163 cm.                   *)
RssiValues == {0, -50, -60, -70, -80, -90}
Addresses == {TARGET_MAC_ADDRESS, OTHER_MAC_ADDRESS}

(* what loading config.json can meet *)
Configs == {"ok", "missing_file", "missing_key"}

----------------------------------------------------------------------------
(* rssi_to_distance *)

RECURSIVE Pow10(_)
Pow10(k) == IF k <= 0 THEN 1 ELSE 10 * Pow10(k - 1)

RECURSIVE CeilSqrtIn(_, _, _)
CeilSqrtIn(x, lo, hi) ==
    IF lo >= hi THEN lo
    ELSE LET mid == (lo + hi) \div 2
         IN  IF mid * mid >= x THEN CeilSqrtIn(x, lo, mid)
             ELSE CeilSqrtIn(x, mid + 1, hi)

(* the least n with n * n >= x *)
CeilSqrt(x) == CeilSqrtIn(x, 0, 46340)

Infinity == [inf |-> TRUE, cm |-> 0]
Finite(n) == [inf |-> FALSE, cm |-> n]

(* 10 ** ((RSSI_AT_1M - rssi) / (10 * PATH_LOSS_EXPONENT)) * 100, rounded up. *)
(* Its square is 10 ** (4 + (RSSI_AT_1M - rssi) / (5 * PATH_LOSS_EXPONENT)),  *)
(* an integer power of ten for the readings of RssiValues.                    *)
rssi_to_distance_no_sentinel(rssi) ==
    Finite(CeilSqrt(Pow10(4 + (RSSI_AT_1M - rssi) \div (5 * PATH_LOSS_EXPONENT))))

rssi_to_distance(rssi) ==
    IF rssi = 0
    THEN Infinity
    ELSE Finite(CeilSqrt(Pow10(4 + (RSSI_AT_1M - rssi) \div (5 * PATH_LOSS_EXPONENT))))

(* line 76, for the readings the scanner delivers *)
DistanceOf == [r \in RssiValues |-> rssi_to_distance(r)]

(* float comparisons: inf <= n is false and inf > n is true for finite n *)
DistLeq_strict(d, n) == ~d.inf /\ d.cm < n
DistLeq(d, n) == ~d.inf /\ d.cm <= n

DistGt_inclusive(d, n) == d.inf \/ d.cm >= n
DistGt(d, n) == d.inf \/ d.cm > n

----------------------------------------------------------------------------
(* The engine's state as a value: st.screen_locked, st.start (the away      *)
(* timer) and st.out, the intents emitted so far by the running callback.   *)

lock_screen_forgets_flag(st) == [st EXCEPT !.out = Append(@, "lock")]

lock_screen_toggle(st) ==
    [st EXCEPT !.screen_locked = ~st.screen_locked, !.out = Append(@, "lock")]

lock_screen(st) ==
    [st EXCEPT !.screen_locked = TRUE, !.out = Append(@, "lock")]

unlock_screen_unguarded(st) ==
    [st EXCEPT !.screen_locked = FALSE, !.out = Append(@, "unlock")]

unlock_screen(st) ==
    IF st.screen_locked
    THEN [st EXCEPT !.screen_locked = FALSE, !.out = Append(@, "unlock")]
    ELSE st

(* the away test of the timer: time.time() - start > TIME_THRESHOLD_SECONDS *)
TimerExpired_inclusive(now, start) == now - start >= TIME_THRESHOLD_SECONDS
TimerExpired(now, start) == now - start > TIME_THRESHOLD_SECONDS

(* the branch taken when the distance is within unlocking range *)
NearbyBranch_keeps_timer(st) == unlock_screen(st)
NearbyBranch(st) == [unlock_screen(st) EXCEPT !.start = None]

(* the branch taken when the distance exceeds the threshold *)
AwayBranch_keeps_timer(st, now) ==
    IF st.start = None
    THEN [st EXCEPT !.start = now]
    ELSE IF TimerExpired(now, st.start)
         THEN lock_screen(st)
         ELSE st

AwayBranch_restarts_timer(st, now) ==
    IF st.start # None /\ TimerExpired(now, st.start)
    THEN [lock_screen(st) EXCEPT !.start = None]
    ELSE [st EXCEPT !.start = now]

AwayBranch(st, now) ==
    IF st.start = None
    THEN [st EXCEPT !.start = now]
    ELSE IF TimerExpired(now, st.start)
         THEN [lock_screen(st) EXCEPT !.start = None]
         ELSE st

(* the else branch: the dead zone between the two thresholds *)
DeadZoneBranch_keeps_timer(st) == st
DeadZoneBranch(st) == [st EXCEPT !.start = None]

(* the body of detection_callback for the target device *)
TargetSample(st, d, now) ==
    IF DistLeq(d, NEARBY_DISTANCE_CM)
    THEN NearbyBranch(st)
    ELSE IF DistGt(d, DISTANCE_THRESHOLD_CM)
         THEN AwayBranch(st, now)
         ELSE DeadZoneBranch(st)

----------------------------------------------------------------------------
(* History kept for the properties; the code does not read it.              *)

Min(a, b) == IF a < b THEN a ELSE b

(* how the sample classifies against the thresholds, as plain comparisons *)
IsNearby(d) == ~d.inf /\ d.cm <= NEARBY_DISTANCE_CM
IsAway(d) == d.inf \/ d.cm > DISTANCE_THRESHOLD_CM
IsDeadZone(d) == ~IsNearby(d) /\ ~IsAway(d)

NoLock == [at |-> None, n |-> 0, rearmed |-> FALSE, awayOnly |-> FALSE]

(* every callback flips last.turn, so that no callback is a stuttering step *)
Record(address, rssi, d, out) ==
    [turn |-> 1 - last.turn, address |-> address, rssi |-> rssi, d |-> d, out |-> out]

----------------------------------------------------------------------------
Init ==
    /\ screen_locked = FALSE
    /\ distance_exceed_start_time = None
    /\ clock = 0
    /\ last = [turn |-> 0, address |-> "", rssi |-> 0, d |-> Infinity, out |-> <<>>]
    /\ runStart = None
    /\ lastTime = None
    /\ lastLock = NoLock
    /\ sameRun = [d |-> Finite(0), changes |-> 0]
    /\ lastIntent = "none"
    /\ stepBacks = 0
    /\ proc = [pc |-> "import", scanner |-> "none", elapsed |-> 0, found |-> FALSE,
               tracked |-> FALSE, notes |-> {}, log |-> {}, exit |-> ""]

(* the body of the if of detection_callback: the advertisement is taken *)
(* as a sample of the target device                                     *)
Sample(address, rssi) ==
    LET d == DistanceOf[rssi]
        st0 == [screen_locked |-> screen_locked,
                start |-> distance_exceed_start_time,
                out |-> <<>>]
        st1 == TargetSample(st0, d, clock)
        locks == st1.out # <<>> /\ st1.out[Len(st1.out)] = "lock"
        changed == IF st1.screen_locked # screen_locked THEN 1 ELSE 0
    IN  /\ screen_locked' = st1.screen_locked
        /\ distance_exceed_start_time' = st1.start
        /\ last' = Record(address, rssi, d, st1.out)
        /\ runStart' = IF IsAway(d)
                       THEN (IF runStart = None THEN clock ELSE runStart)
                       ELSE None
        /\ lastTime' = clock
        /\ lastLock' =
              IF locks
              THEN [at |-> clock, n |-> Min(lastLock.n + 1, MaxLocks),
                    rearmed |-> FALSE, awayOnly |-> TRUE]
              ELSE [lastLock EXCEPT
                      !.rearmed = @ \/ (/\ lastLock.at # None
                                        /\ distance_exceed_start_time = None
                                        /\ st1.start # None),
                      !.awayOnly = @ /\ IsAway(d)]
        /\ sameRun' =
              IF sameRun.d = d
              THEN [d |-> d, changes |-> Min(sameRun.changes + changed, MaxChanges)]
              ELSE [d |-> d, changes |-> changed]
        /\ lastIntent' = IF st1.out = <<>> THEN lastIntent ELSE st1.out[Len(st1.out)]
        /\ UNCHANGED <<clock, stepBacks, proc>>

(* detection_callback for an advertisement of the target device *)
TargetAdvertisement(rssi) == Sample(TARGET_MAC_ADDRESS, rssi)

(* detection_callback for an advertisement of any other device: the RSSI *)
(* is not read                                                           *)
OtherAdvertisement(rssi) ==
    /\ last' = Record(OTHER_MAC_ADDRESS, 0, Infinity, <<>>)
    /\ UNCHANGED <<screen_locked, distance_exceed_start_time, clock, runStart,
                   lastTime, lastLock, sameRun, lastIntent, stepBacks, proc>>

detection_callback_any_device(address, rssi) == Sample(address, rssi)

detection_callback(address, rssi) ==
    IF address = TARGET_MAC_ADDRESS
    THEN TargetAdvertisement(rssi)
    ELSE OtherAdvertisement(rssi)

(* the tracking scanner delivers an advertisement *)
Advertisement ==
    /\ proc.pc = "tracking"
    /\ \E address \in Addresses, rssi \in RssiValues :
          detection_callback(address, rssi)

(* a second passes while tracking; clock counts from the start of tracking *)
Tick_fires_timer ==
    /\ proc.pc = "tracking"
    /\ clock < MaxTime
    /\ clock' = clock + 1
    /\ IF /\ distance_exceed_start_time # None
          /\ TimerExpired(clock + 1, distance_exceed_start_time)
       THEN screen_locked' = TRUE /\ distance_exceed_start_time' = None
       ELSE UNCHANGED <<screen_locked, distance_exceed_start_time>>
    /\ UNCHANGED <<last, runStart, lastTime, lastLock, sameRun, lastIntent, stepBacks, proc>>

Tick ==
    /\ proc.pc = "tracking"
    /\ clock < MaxTime
    /\ clock' = clock + 1
    /\ UNCHANGED <<screen_locked, distance_exceed_start_time, last, runStart,
                   lastTime, lastLock, sameRun, lastIntent, stepBacks, proc>>

(* the system clock is set back (time.time() is not monotonic) *)
ClockStepBack ==
    /\ proc.pc = "tracking"
    /\ clock > 0
    /\ stepBacks < MaxStepBacks
    /\ \E t \in 0 .. (clock - 1) :
          /\ clock - t <= MaxStepBackSeconds
          /\ clock' = t
    /\ stepBacks' = stepBacks + 1
    /\ UNCHANGED <<screen_locked, distance_exceed_start_time, last, runStart,
                   lastTime, lastLock, sameRun, lastIntent, proc>>

----------------------------------------------------------------------------
(* The process: loading config.json at import, then run().                 *)

(* lines 11-21: a missing file or key raises, and the interpreter exits *)
(* with a traceback                                                     *)
LoadConfig(cfg) ==
    /\ proc.pc = "import"
    /\ proc' = IF cfg = "ok"
               THEN [proc EXCEPT !.pc = "run"]
               ELSE [proc EXCEPT !.pc = "exited", !.exit = "config_error"]
    /\ UNCHANGED engine

(* lines 105-112: the probe scanner, which has no detection callback *)
StartProbe ==
    /\ proc.pc = "run"
    /\ proc' = [proc EXCEPT !.pc = "probe", !.scanner = "probe", !.elapsed = 0]
    /\ distance_exceed_start_time' = None
    /\ UNCHANGED <<screen_locked, clock, last, runStart, lastTime, lastLock,
                   sameRun, lastIntent, stepBacks>>

(* lines 115-124: one turn of the probe loop; seen tells whether the *)
(* target is among scanner.discovered_devices                        *)
ProbeLoop(seen) ==
    /\ proc.pc = "probe"
    /\ proc' = IF proc.elapsed < PROBE_WINDOW_SECONDS
               THEN IF seen
                    THEN [proc EXCEPT !.pc = "probe_done", !.found = TRUE,
                                      !.notes = @ \cup {"found"}]
                    ELSE [proc EXCEPT !.elapsed = @ + 1]
               ELSE [proc EXCEPT !.pc = "probe_done"]
    /\ UNCHANGED engine

(* line 126 *)
StopProbe ==
    /\ proc.pc = "probe_done"
    /\ proc' = [proc EXCEPT !.pc = "after_probe", !.scanner = "stopped"]
    /\ UNCHANGED engine

(* lines 128-131 *)
NotFoundExit ==
    /\ proc' = [proc EXCEPT !.pc = "exited", !.exit = "not_found",
                            !.notes = @ \cup {"not_found"},
                            !.log = @ \cup {"Device not found. Exiting script."}]
    /\ UNCHANGED engine

(* lines 134-135: the tracking scanner, with detection_callback; the *)
(* probe loop's clock is not read again                              *)
StartTracking ==
    /\ proc' = [proc EXCEPT !.pc = "tracking", !.scanner = "tracking",
                            !.tracked = TRUE, !.elapsed = 0]
    /\ UNCHANGED engine

(* lines 128-135 *)
AfterProbe_always_tracks ==
    /\ proc.pc = "after_probe"
    /\ StartTracking

AfterProbe ==
    /\ proc.pc = "after_probe"
    /\ IF proc.found THEN StartTracking ELSE NotFoundExit

(* Ctrl-C while run() is running.  The main task is cancelled where it    *)
(* waits.  While tracking that is inside the try of lines 137-145, whose  *)
(* finally stops the scanner, logs and exits; anywhere before, nothing in *)
(* run() handles it and lines 151-153 log and exit.                       *)
Interrupt ==
    /\ proc.pc \in {"probe", "probe_done", "after_probe", "tracking"}
    /\ proc' = IF proc.pc = "tracking"
               THEN [proc EXCEPT !.pc = "exited", !.exit = "interrupt",
                                 !.scanner = "stopped",
                                 !.log = @ \cup {"Exiting script."}]
               ELSE [proc EXCEPT !.pc = "exited", !.exit = "interrupt",
                                 !.log = @ \cup {"Interrupted by user."}]
    /\ UNCHANGED engine

Startup ==
    \/ \E cfg \in Configs : LoadConfig(cfg)
    \/ StartProbe
    \/ \E seen \in BOOLEAN : ProbeLoop(seen)
    \/ StopProbe
    \/ AfterProbe

Next == Startup \/ Advertisement \/ Tick \/ Interrupt

(* samples are processed at non-decreasing times *)
Spec == Init /\ [][Next]_vars

NextStale == Startup \/ Advertisement \/ Tick \/ ClockStepBack

(* a sample may be processed at a time before that of the last sample *)
SpecStale == Init /\ [][NextStale]_vars

----------------------------------------------------------------------------
(* The device leaves and stays away: from time AwayFrom on every sample of *)
(* the target is an away sample, a sample is processed in every second and *)
(* the process is not interrupted.                                         *)

LiveAdvertisement ==
    /\ proc.pc = "tracking"
    /\ \E address \in Addresses, rssi \in RssiValues :
          /\ (address = TARGET_MAC_ADDRESS /\ clock >= AwayFrom) =>
                IsAway(DistanceOf[rssi])
          /\ detection_callback(address, rssi)

AwaySample ==
    /\ proc.pc = "tracking"
    /\ \E rssi \in RssiValues :
          /\ IsAway(DistanceOf[rssi])
          /\ detection_callback(TARGET_MAC_ADDRESS, rssi)

LiveTick == Tick /\ lastTime = clock

NextLive == Startup \/ LiveAdvertisement \/ LiveTick

(* away samples keep arriving and time keeps advancing *)
SpecLive == Init /\ [][NextLive]_vars /\ WF_vars(LiveTick) /\ WF_vars(AwaySample)

----------------------------------------------------------------------------
(* Properties.  A step is a callback when it flips last.turn; after it,     *)
(* last' describes the advertisement processed, unprimed variables are the  *)
(* state the callback found and clock is the time it read.                  *)

Callback == last'.turn # last.turn
TargetStep == Callback /\ last'.address = TARGET_MAC_ADDRESS
EmitsLock == \E i \in 1 .. Len(last'.out) : last'.out[i] = "lock"
EmitsUnlock == \E i \in 1 .. Len(last'.out) : last'.out[i] = "unlock"
LastWasTarget == last.address = TARGET_MAC_ADDRESS

(* C1: a lock intent is emitted only when screen_locked is False at the   *)
(* moment the away sample is processed, and while every sample after a    *)
(* lock intent is an away sample no further lock intent is emitted.       *)
C1_LockOnlyWhenUnlocked ==
    [][/\ (TargetStep /\ EmitsLock) => (screen_locked = FALSE)
       /\ ~(TargetStep /\ EmitsLock /\ lastLock.at # None /\ lastLock.awayOnly)]_vars

(* C2: every lock intent is emitted while processing an away sample, and  *)
(* the unbroken run of away samples that this sample ends began more than *)
(* TIME_THRESHOLD_SECONDS before it; so a sample at or below the away     *)
(* threshold makes later away samples wait for the whole window again.    *)
C2_Debounce ==
    [][(TargetStep /\ EmitsLock) =>
          /\ IsAway(last'.d)
          /\ runStart # None
          /\ clock - runStart > TIME_THRESHOLD_SECONDS]_vars

C2_Witness ==
    /\ LastWasTarget /\ last.out = <<"lock">> /\ IsAway(last.d)
    /\ runStart # None /\ runStart > 0
    /\ clock - runStart > TIME_THRESHOLD_SECONDS

(* C3: a nearby sample emits exactly one unlock intent and unlocks when   *)
(* screen_locked is True, and emits nothing when it is False; no unlock   *)
(* intent is emitted in any other situation.                              *)
C3_UnlockOnlyWhenLockedAndNearby ==
    [][/\ (TargetStep /\ IsNearby(last'.d)) =>
             /\ screen_locked' = FALSE
             /\ last'.out = IF screen_locked THEN <<"unlock">> ELSE <<>>
       /\ (Callback /\ EmitsUnlock) =>
             (TargetStep /\ IsNearby(last'.d) /\ screen_locked)]_vars

C3_Witness ==
    /\ LastWasTarget /\ IsNearby(last.d) /\ last.out = <<"unlock">>
    /\ screen_locked = FALSE

(* C4: an away sample that finds the timer expired resets the timer to    *)
(* None whatever screen_locked is and, when screen_locked is False, emits *)
(* a lock intent and sets screen_locked; an away sample that finds the    *)
(* timer None only sets it to the current time and emits nothing.         *)
C4_AwayFiring ==
    [][/\ (/\ TargetStep /\ IsAway(last'.d)
           /\ distance_exceed_start_time # None
           /\ clock - distance_exceed_start_time > TIME_THRESHOLD_SECONDS) =>
             /\ distance_exceed_start_time' = None
             /\ (screen_locked = FALSE) =>
                   (last'.out = <<"lock">> /\ screen_locked' = TRUE)
       /\ (TargetStep /\ IsAway(last'.d) /\ distance_exceed_start_time = None) =>
             /\ distance_exceed_start_time' = clock
             /\ last'.out = <<>>
             /\ screen_locked' = screen_locked]_vars

C4_Witness ==
    /\ LastWasTarget /\ IsAway(last.d) /\ last.out = <<"lock">>
    /\ lastLock.n = 1 /\ lastLock.at = clock
    /\ screen_locked = TRUE /\ distance_exceed_start_time = None

(* C5: while the timer is set, the last target sample was an away sample  *)
(* and so was every sample since the timer was set; after a sample at or  *)
(* below the away threshold the timer is None.                            *)
C5_TimerOnlyWhileAway ==
    /\ distance_exceed_start_time # None =>
          (runStart # None /\ runStart <= distance_exceed_start_time)
    /\ (LastWasTarget /\ ~IsAway(last.d)) => distance_exceed_start_time = None

C5_Witness ==
    /\ distance_exceed_start_time # None
    /\ runStart # None /\ runStart < distance_exceed_start_time

(* C6: a dead-zone sample changes screen_locked in no state and emits no  *)
(* intent.                                                                *)
C6_Hysteresis ==
    [][(TargetStep /\ IsDeadZone(last'.d)) =>
          (last'.out = <<>> /\ screen_locked' = screen_locked)]_vars

C6_Witness ==
    /\ LastWasTarget /\ IsDeadZone(last.d) /\ last.out = <<>>
    /\ screen_locked = TRUE

(* C7: a sample exactly at NEARBY_DISTANCE_CM takes the nearby branch; a  *)
(* sample exactly at DISTANCE_THRESHOLD_CM is a dead-zone sample: it      *)
(* clears the timer and neither starts nor advances it.                   *)
C7_Boundaries ==
    [][/\ (TargetStep /\ last'.d = Finite(NEARBY_DISTANCE_CM)) =>
             /\ distance_exceed_start_time' = None
             /\ screen_locked' = FALSE
             /\ last'.out = IF screen_locked THEN <<"unlock">> ELSE <<>>
       /\ (/\ TargetStep /\ last'.d = Finite(DISTANCE_THRESHOLD_CM)
           /\ NEARBY_DISTANCE_CM < DISTANCE_THRESHOLD_CM) =>
             /\ distance_exceed_start_time' = None
             /\ last'.out = <<>>
             /\ screen_locked' = screen_locked]_vars

C7_Witness ==
    /\ LastWasTarget /\ last.d = Finite(NEARBY_DISTANCE_CM)
    /\ last.out = <<"unlock">>
    /\ distance_exceed_start_time = None

(* C8: a lock intent that follows another is emitted only after an away   *)
(* sample processed after the earlier intent started the timer again, at  *)
(* an away sample more than TIME_THRESHOLD_SECONDS after that start with  *)
(* only away samples since; so it is more than TIME_THRESHOLD_SECONDS     *)
(* after the earlier intent and not at the next sample.                   *)
C8_LockSpacing ==
    [][(TargetStep /\ EmitsLock /\ lastLock.at # None) =>
          /\ lastLock.rearmed
          /\ distance_exceed_start_time # None
          /\ distance_exceed_start_time >= lastLock.at
          /\ clock - distance_exceed_start_time > TIME_THRESHOLD_SECONDS
          /\ runStart # None /\ runStart <= distance_exceed_start_time
          /\ clock - lastLock.at > TIME_THRESHOLD_SECONDS]_vars

C8_Witness ==
    /\ LastWasTarget /\ last.out = <<"lock">>
    /\ lastLock.n >= 2 /\ lastLock.at = clock

(* C9: a sample processed at a time before that of the last processed     *)
(* sample is discarded: no intent, screen_locked and the timer unchanged. *)
C9_StaleDiscarded ==
    [][(TargetStep /\ lastTime # None /\ clock < lastTime) =>
          /\ last'.out = <<>>
          /\ screen_locked' = screen_locked
          /\ distance_exceed_start_time' = distance_exceed_start_time]_vars

(* C10: while all samples carry the same distance, screen_locked changes  *)
(* at most once.                                                          *)
C10_SameDistanceChangesOnce == sameRun.changes <= 1

C10_Witness ==
    /\ sameRun.changes = 1 /\ IsAway(sameRun.d)
    /\ screen_locked = TRUE /\ distance_exceed_start_time # None


(* C11: before any sample the engine is unlocked with no timer, and in    *)
(* every state screen_locked is True exactly when an intent has been      *)
(* emitted and the most recent one is a lock intent; an unlock intent is  *)
(* never the first intent.                                                *)
C11_LockedIffLastIntentLock ==
    /\ (lastTime = None) =>
          (/\ screen_locked = FALSE /\ distance_exceed_start_time = None
           /\ lastIntent = "none")
    /\ screen_locked = (lastIntent = "lock")
    /\ (lastIntent = "unlock") => lastLock.n >= 1

C11_Witness ==
    /\ lastIntent = "unlock" /\ screen_locked = FALSE /\ lastLock.n >= 1

(* C15: RSSI 0 gives the distance +infinity, and a sample with RSSI 0 is  *)
(* an away sample: it emits no unlock intent, starts a timer that is None *)
(* at the time read, leaves a running timer alone until it has expired    *)
(* and then fires it.                                                     *)
C15_ZeroRssiIsAway ==
    [][(TargetStep /\ last'.rssi = 0) =>
          /\ last'.d = Infinity
          /\ ~EmitsUnlock
          /\ screen_locked => screen_locked'
          /\ IF distance_exceed_start_time = None
             THEN distance_exceed_start_time' = clock /\ last'.out = <<>>
             ELSE IF clock - distance_exceed_start_time > TIME_THRESHOLD_SECONDS
                  THEN distance_exceed_start_time' = None /\ EmitsLock
                  ELSE /\ distance_exceed_start_time' = distance_exceed_start_time
                       /\ last'.out = <<>>]_vars

C15_Witness ==
    /\ LastWasTarget /\ last.rssi = 0 /\ last.d = Infinity
    /\ last.out = <<"lock">> /\ screen_locked = TRUE

(* C16: an away sample that finds the timer set and not more than         *)
(* TIME_THRESHOLD_SECONDS old, exactly TIME_THRESHOLD_SECONDS included,   *)
(* emits no intent and leaves screen_locked and the timer unchanged.      *)
C16_WithinWindowNoEffect ==
    [][(/\ TargetStep /\ IsAway(last'.d)
        /\ distance_exceed_start_time # None
        /\ clock - distance_exceed_start_time <= TIME_THRESHOLD_SECONDS) =>
          /\ last'.out = <<>>
          /\ screen_locked' = screen_locked
          /\ distance_exceed_start_time' = distance_exceed_start_time]_vars

C16_Witness ==
    /\ LastWasTarget /\ IsAway(last.d) /\ last.out = <<>>
    /\ lastTime = clock
    /\ distance_exceed_start_time # None
    /\ clock - distance_exceed_start_time = TIME_THRESHOLD_SECONDS

(* C19: an advertisement of a device other than the target changes neither *)
(* screen_locked nor the timer and emits no intent.                         *)
C19_OtherDeviceIgnored ==
    [][(Callback /\ last'.address # TARGET_MAC_ADDRESS) =>
          /\ last'.out = <<>>
          /\ lastIntent' = lastIntent
          /\ screen_locked' = screen_locked
          /\ distance_exceed_start_time' = distance_exceed_start_time]_vars

C19_Witness ==
    /\ last.address = OTHER_MAC_ADDRESS
    /\ distance_exceed_start_time # None
    /\ clock - distance_exceed_start_time > TIME_THRESHOLD_SECONDS

(* C20: a step that is not a callback changes neither screen_locked nor   *)
(* the timer and emits no intent, and a lock intent is emitted only at an *)
(* away sample that follows an earlier away sample.                       *)
C20_TimeAloneDoesNothing ==
    [][/\ ~Callback =>
             /\ screen_locked' = screen_locked
             /\ distance_exceed_start_time' = distance_exceed_start_time
             /\ lastIntent' = lastIntent
       /\ (Callback /\ EmitsLock) =>
             (TargetStep /\ IsAway(last'.d) /\ runStart # None /\ lastTime # None)]_vars

C20_Witness ==
    /\ screen_locked = FALSE
    /\ distance_exceed_start_time # None
    /\ lastTime = distance_exceed_start_time
    /\ runStart = distance_exceed_start_time
    /\ clock - distance_exceed_start_time > TIME_THRESHOLD_SECONDS
    /\ lastLock.n = 0


(* C12: when the target is seen at no poll of the probe window, which     *)
(* ends after PROBE_WINDOW_SECONDS, the daemon stops the probe scanner,   *)
(* notifies the user and exits: tracking never starts, no sample is       *)
(* processed and no intent is emitted.  Tracking starts, and samples are  *)
(* processed, only after the target was found during the probe.           *)
C12_NotFoundExits ==
    /\ (proc.exit = "not_found") =>
          /\ proc.pc = "exited"
          /\ proc.elapsed = PROBE_WINDOW_SECONDS
          /\ proc.scanner = "stopped"
          /\ "not_found" \in proc.notes
          /\ ~proc.tracked
          /\ lastTime = None /\ last.address = "" /\ lastIntent = "none"
    /\ (proc.pc = "after_probe" /\ ~proc.found) =>
          (proc.scanner = "stopped" /\ proc.elapsed = PROBE_WINDOW_SECONDS)
    /\ proc.tracked => (proc.found /\ "found" \in proc.notes)
    /\ (last.address # "") => proc.tracked
    /\ proc.elapsed <= PROBE_WINDOW_SECONDS

C12_Witness ==
    /\ proc.exit = "not_found" /\ proc.pc = "exited"
    /\ proc.elapsed = PROBE_WINDOW_SECONDS /\ "not_found" \in proc.notes

(* C13: after a configuration error, as after device-not-found, tracking  *)
(* has not started and a desktop notification was produced before the     *)
(* process exited.                                                        *)
C13_FatalStartupNotifies ==
    (proc.pc = "exited" /\ proc.exit \in {"config_error", "not_found"}) =>
        (~proc.tracked /\ proc.notes # {})

(* C14: after an interrupt that arrives while a scanner is running, the   *)
(* scanner has been stopped and a termination line logged when the        *)
(* process has exited, and no sample is processed afterwards.             *)
C14_InterruptStopsScanner ==
    [][/\ (proc'.exit = "interrupt") =>
             (/\ proc'.pc = "exited"
              /\ proc'.scanner \in {"none", "stopped"}
              /\ proc'.log # {})
       /\ (proc.pc = "exited") => (~Callback /\ lastIntent' = lastIntent)]_vars


(* C17: when screen_locked is False and every target sample from then on  *)
(* is an away sample, with samples arriving and time advancing, a lock    *)
(* intent is eventually emitted and screen_locked becomes True.           *)
C17_EventuallyLocks ==
    (proc.pc = "tracking" /\ clock >= AwayFrom /\ screen_locked = FALSE)
        ~> (screen_locked = TRUE /\ lastIntent = "lock" /\ lastLock.at >= AwayFrom)

C17_Witness ==
    /\ proc.pc = "tracking" /\ clock >= AwayFrom
    /\ screen_locked = TRUE /\ lastIntent = "lock"
    /\ lastLock.at >= AwayFrom /\ lastLock.n >= 2

====
